---- MODULE Spec2Model ----
(***************************************************************************)
(* Session store and project attachment of fmu-settings-api                *)
(* (src/src/fmu_settings_api/session.py).                                  *)
(*                                                                         *)
(* The session manager is a dict from session id to a Session or           *)
(* ProjectSession dataclass.  Its operations are coroutines run by one     *)
(* asyncio event loop.  Each request is a task; a task's code is cut into  *)
(* steps at the awaited storage coroutines (_retrieve_session,             *)
(* _store_session, _update_session).  Whether another task may run between *)
(* two steps is decided by StorageAwaitYields.                             *)
(*                                                                         *)
(* Also: the access tokens of a session (PATCH /session/access_token) and  *)
(* the cache of a project resource as ResourceService uses it              *)
(* (src/src/fmu_settings_api/services/resource.py): listing, reading,      *)
(* comparing and restoring revisions.                                      *)
(***************************************************************************)
EXTENDS Integers, Sequences, FiniteSets, TLC

\* ---------------------------------------------------------------- bounds
\* how many identifiers uuid4() hands out
MaxSessions == 1
\* the last clock tick
MaxTime == 2
\* settings.SESSION_EXPIRE_SECONDS, in clock ticks
ExpireTicks == 1

\* how many identifiers uuid4() hands out when requests come one at a time
MaxSeqSessions == 2

SessionIds == 1..MaxSessions
SeqSessionIds == 1..MaxSeqSessions
\* two requests can be in flight at once
Tasks == {1, 2}
\* two project .fmu directories, A and B
Projects == {1, 2}

VARIABLES
    now,        \* the wall clock read by datetime.now(UTC)
    nextId,     \* the next identifier uuid4() hands out (never one handed out before)
    storage,    \* SessionManager.storage: session id -> record
    lockLog,    \* the calls this process made on project locks, in order
    lockHeld,   \* the projects whose lock this process holds (is_acquired())
    lockBusy,   \* the projects whose lock another process holds (acquire raises LockError):
                \* project 1 is free, project 2 is locked elsewhere
    running,    \* the task the event loop is executing, or NoTask
    task        \* per request in flight: position (pc), operation (op), arguments
                \* (sid, project), the session as read (session), the time read
                \* (at), the length of lockLog when it began (mark), its result
                \* (ret), the operations it overlapped on its session id (ov)

VARIABLES
    access_tokens,  \* per session id, the access_tokens field of its record
    tokCall         \* the last patch_access_token request and its response

VARIABLES
    live,       \* the resource file config.json of the project: its text, or NoFile
    mem,        \* the copy of the resource its manager keeps in memory, or NoFile
    revisions,  \* the cache of the resource: its revisions, oldest first
    nextRev,    \* the next revision id the cache generates
    rcall       \* the last ResourceService call: what it was given, what it
                \* found and what it answered

VARIABLES
    diffIn,     \* the two models a diff is asked for: the live one and the revision
    diffOut     \* what get_cache_diff answered for them, or None before it ran

VARIABLES
    resp,       \* the last HTTP request and the response it was given
    lstat       \* the last get_lock_status call and what it gave

sessionVars == <<now, nextId, storage, lockLog, lockHeld, lockBusy, running, task>>
tokenVars == <<access_tokens, tokCall>>
cacheVars == <<live, mem, revisions, nextRev, rcall>>
diffVars == <<diffIn, diffOut>>
routeVars == <<resp, lstat>>
vars == <<sessionVars, tokenVars, cacheVars, diffVars, routeVars>>

\* ------------------------------------------------------------ values
\* no task holds the event loop; no project argument; no session id argument
NoTask == 0
NoProject == 0
NoSid == 0
None == [cls |-> "NoneType"]
SessionNotFoundError == [cls |-> "SessionNotFoundError"]
KeyError == [cls |-> "KeyError"]
TypeError == [cls |-> "TypeError"]
ValueError == [cls |-> "ValueError"]
FileNotFoundError == [cls |-> "FileNotFoundError"]
PermissionError == [cls |-> "PermissionError"]
FileExistsError == [cls |-> "FileExistsError"]
AttributeError == [cls |-> "AttributeError"]
ValidationError == [cls |-> "ValidationError"]

\* dataclass Session
Session(id, user_fmu_directory, created_at, expires_at, last_accessed) ==
    [cls |-> "Session", id |-> id, user_fmu_directory |-> user_fmu_directory,
     created_at |-> created_at, expires_at |-> expires_at,
     last_accessed |-> last_accessed]

\* dataclass ProjectSession(Session)
ProjectSession(id, user_fmu_directory, created_at, expires_at, last_accessed, project_fmu_directory) ==
    [cls |-> "ProjectSession", id |-> id, user_fmu_directory |-> user_fmu_directory,
     created_at |-> created_at, expires_at |-> expires_at,
     last_accessed |-> last_accessed,
     project_fmu_directory |-> project_fmu_directory]

\* isinstance(x, C): ProjectSession is declared as a subclass of Session
isinstance(x, C) ==
    \/ x.cls = C
    \/ (C = "Session" /\ x.cls = "ProjectSession")

\* `if not session`: None is falsy, a dataclass instance is truthy
Truthy(x) == x.cls \in {"Session", "ProjectSession"}

\* whether awaiting a storage coroutine hands the event loop to another task:
\* the three storage coroutines contain no await themselves, so it does not
StorageAwaitYieldsMut == TRUE
StorageAwaitYields == FALSE

\* self.storage.get with a new session as the default
_retrieve_sessionMut(st, session_id) ==
    IF session_id \in DOMAIN st THEN st[session_id]
    ELSE Session(session_id, "user", 0, MaxTime, 0)

\* SessionManager._retrieve_session: self.storage.get(session_id, None)
_retrieve_session(st, session_id) ==
    IF session_id \in DOMAIN st THEN st[session_id] ELSE None

\* SessionManager._store_session / _update_session: self.storage[session_id] = session
_store_sessionMut(st, session_id, session) == [k \in {session_id} |-> session]
_store_session(st, session_id, session) ==
    [k \in DOMAIN st \cup {session_id} |-> IF k = session_id THEN session ELSE st[k]]

\* del self.storage[session_id]
DelItem(st, session_id) == [k \in DOMAIN st \ {session_id} |-> st[k]]

\* get_session: session.expires_at < now
IsExpiredMut(session, t) == session.expires_at + 1 < t
IsExpired(session, t) == session.expires_at < t

\* get_session line 112: session.last_accessed = now
TouchMut(session, t) == session
Touch(session, t) == [session EXCEPT !.last_accessed = t]

\* ------------------------------------------------------------ project locks
\* ProjectLock (consumed capability): acquire() raises LockError while another
\* process holds the lock; release() gives the lock up.  Each call is logged.
RECURSIVE RunLockCalls(_, _, _, _)
RunLockCalls(calls, log, held, busy) ==
    IF calls = <<>> THEN [log |-> log, held |-> held]
    ELSE LET c == Head(calls)
             ok == IF c.op = "acquire" THEN c.project \notin busy ELSE TRUE
             held2 == IF ~ok THEN held
                      ELSE IF c.op = "acquire" THEN held \cup {c.project}
                      ELSE held \ {c.project}
         IN RunLockCalls(Tail(calls),
                         Append(log, [op |-> c.op, project |-> c.project, ok |-> ok]),
                         held2, busy)

LockCall(op, project) == [op |-> op, project |-> project]

\* the calls SessionManager.destroy_session makes on the lock of the project
\* of the session it removes: none
destroy_session_lock_calls(session) == <<>>

\* the calls add_fmu_project_to_session makes on the lock of the project that
\* was attached and on the lock of the project it attaches: none
add_fmu_project_to_session_lock_callsMut(session, project_fmu_directory) ==
    <<LockCall("acquire", project_fmu_directory)>>
add_fmu_project_to_session_lock_calls(session, project_fmu_directory) == <<>>

\* the calls remove_fmu_project_from_session makes on the lock of the project
\* it detaches: none
remove_fmu_project_from_session_lock_calls(session) == <<>>

\* ------------------------------------------------------------ handlers
\* add_fmu_project_to_session, lines 144-150: the record it stores
add_fmu_project_to_session_record(session, project_fmu_directory) ==
    IF isinstance(session, "ProjectSession")
    THEN [session EXCEPT !.project_fmu_directory = project_fmu_directory]
    ELSE ProjectSession(session.id, session.user_fmu_directory, session.created_at,
                        session.expires_at, session.last_accessed,
                        project_fmu_directory)

\* remove_fmu_project_from_session, lines 168-174: what it returns, and whether
\* it stores it.  Session(**asdict(project_session)) passes the keyword
\* project_fmu_directory, which Session's constructor does not take.
remove_fmu_project_from_session_result(maybe_project_session) ==
    IF isinstance(maybe_project_session, "Session")
    THEN [ret |-> maybe_project_session, store |-> FALSE]
    ELSE [ret |-> TypeError, store |-> FALSE]

\* what the caller of get_session does with a None result:
\* add_/remove_fmu_project raise SessionNotFoundError, get_session returns it
OnNoSession(op) ==
    IF op \in {"attach", "detach"} THEN SessionNotFoundError ELSE None

IdleTask ==
    [pc |-> "idle", op |-> "none", sid |-> NoSid, project |-> NoProject,
     session |-> None, at |-> 0, mark |-> 0, ret |-> None, ov |-> {}]

InFlight(t) == task[t].pc # "idle"

CanRun(t) == running \in {NoTask, t}

\* who holds the event loop after task t moved on without finishing
LoopAfter(t) == IF StorageAwaitYields THEN NoTask ELSE t

Ops == {"get", "attach", "detach", "destroy"}

\* the coroutine of task t ends with ret (a return value or a raised error);
\* the event loop is still in that task until the response is handed over
Answer(t, ret) ==
    /\ task' = [task EXCEPT ![t].pc = "done", ![t].ret = ret]
    /\ running' = t

\* ------------------------------------------------------------ access tokens
\* the slots of a session's access tokens (session.access_tokens.smda_api is
\* the one the routes read)
TokenSlots == {"smda_api"}
\* the ids a PATCH /session/access_token request may carry, and the keys
TokenIds == {"smda_api", "foo"}
Secrets == {[cls |-> "SecretStr", value |-> v] : v \in {"k1", "k2"}}

\* the access_tokens of a new session: every slot None
NoTokens == [slot \in TokenSlots |-> None]

\* the access_tokens field of the record stored under sid
TokensOf(sid) == IF sid \in DOMAIN access_tokens THEN access_tokens[sid] ELSE NoTokens

\* add_access_token_to_session(session_id, token): an id outside the slots
\* fails with ValueError and stores nothing; a known id has its key stored,
\* replacing the slot's previous value
add_access_token_to_session(tokens, token) ==
    IF token.id \in TokenSlots
    THEN [err |-> None, tokens |-> [tokens EXCEPT ![token.id] = token.key]]
    ELSE [err |-> ValueError, tokens |-> tokens]

\* patch_access_token: what the route answers for what add_access_token_to_session
\* raised: ValueError -> HTTP 400, nothing raised -> the 200 message
patch_access_token_statusMut(err) == 200
patch_access_token_status(err) ==
    IF err = None THEN 200
    ELSE IF err.cls \in {"ValueError", "SessionNotFoundError", "ValidationError"} THEN 400
    ELSE 500

NoTokCall == [seq |-> 0, sid |-> NoSid, token |-> None, err |-> None, status |-> 0]

\* PATCH /session/access_token on a stored session
patch_access_token(sid, token) ==
    /\ running = NoTask
    /\ sid \in DOMAIN storage
    /\ LET res == add_access_token_to_session(TokensOf(sid), token)
       IN /\ access_tokens' = _store_session(access_tokens, sid, res.tokens)
          /\ tokCall' = [seq |-> 1 - tokCall.seq, sid |-> sid, token |-> token,
                         err |-> res.err,
                         status |-> patch_access_token_status(res.err)]
    /\ UNCHANGED <<sessionVars, cacheVars, diffVars, routeVars>>

\* ------------------------------------------------------------ resource cache
\* The documents a resource text can hold: two that pass the resource's schema
\* and one that does not.  A text is a document in some JSON layout: the one the
\* model serializer writes (canon) or another one (json.dumps of a caller).
Docs == {"n0", "n1", "bad"}
ValidDocs == {"n0", "n1"}
Texts == [doc : Docs, canon : BOOLEAN]
NoFile == [cls |-> "NoFile"]

\* bounds: the cap on revisions per resource (cache_max_revisions), and how
\* many revision ids the cache generates
CacheMaxRevisions == 2
MaxRevisionId == 4
RevisionIds == 1..MaxRevisionId

\* parsing a text gives its document; the schema accepts the valid documents;
\* dumping a model writes the serializer's layout
Parse(text) == [doc |-> text.doc]
IsValid(text) == text.doc \in ValidDocs
Serialize(model) == [doc |-> model.doc, canon |-> TRUE]

\* the file of a revision in the cache directory of the resource
RevisionPath(id) == [parent |-> "cache/config", name |-> id]

\* the positions of revision_id in the cache
Lookup(revs, revision_id) == {i \in 1..Len(revs) : revs[i].id = revision_id}

\* cache.store_revision: append the new revision, then drop the oldest ones
\* beyond the cap
cache_store_revisionMut(revs, id, content) ==
    LET all == Append(revs, [id |-> id, content |-> content])
    IN IF Len(all) > CacheMaxRevisions THEN SubSeq(all, 1, CacheMaxRevisions) ELSE all
cache_store_revision(revs, id, content) ==
    LET all == Append(revs, [id |-> id, content |-> content])
    IN IF Len(all) > CacheMaxRevisions
       THEN SubSeq(all, Len(all) - CacheMaxRevisions + 1, Len(all))
       ELSE all

\* cache.list_revisions: the revision files, oldest first
cache_list_revisions(revs) == [i \in 1..Len(revs) |-> RevisionPath(revs[i].id)]

\* ResourceService.list_cache_revisions: the names of those files, in that order
list_cache_revisionsMut(revs) ==
    LET paths == cache_list_revisions(revs)
    IN [i \in 1..Len(paths) |-> paths[Len(paths) + 1 - i].name]
list_cache_revisions(revs) ==
    LET paths == cache_list_revisions(revs)
    IN [i \in 1..Len(paths) |-> paths[i].name]

\* fmu_dir.get_cache_content: the revision's text parsed and validated
fmu_dir_get_cache_content(revs, revision_id) ==
    IF Lookup(revs, revision_id) = {} THEN [err |-> FileNotFoundError, model |-> None]
    ELSE LET text == revs[CHOOSE i \in Lookup(revs, revision_id) : TRUE].content
         IN IF ~IsValid(text) THEN [err |-> ValueError, model |-> None]
            ELSE [err |-> None, model |-> Parse(text)]

\* The steps of fmu_dir.restore_from_cache.  Each takes and gives the state of
\* the restore: the resource file, the in-memory copy, the cache, the next
\* revision id, the error raised so far, the validated model, the revision
\* made of the file, and the steps done.  After an error nothing more is done.
RestoreStart(revision_id) ==
    [revision_id |-> revision_id, live |-> live, mem |-> mem, revisions |-> revisions,
     nextRev |-> nextRev, err |-> None, text |-> None, model |-> None,
     snap |-> 0, steps |-> <<>>]

\* 1. read the revision
ReadStep(st) ==
    IF st.err # None THEN st
    ELSE IF Lookup(st.revisions, st.revision_id) = {}
    THEN [st EXCEPT !.err = FileNotFoundError]
    ELSE [st EXCEPT !.steps = Append(@, "read"),
                    !.text = st.revisions[CHOOSE i \in Lookup(st.revisions,
                                                              st.revision_id) : TRUE].content]

\* 2. validate its content against the schema
ValidateStep(st) ==
    IF st.err # None THEN st
    ELSE IF ~IsValid(st.text) THEN [st EXCEPT !.err = ValueError]
    ELSE [st EXCEPT !.steps = Append(@, "validate"), !.model = Parse(st.text)]

\* 3. if the resource file exists, store its text as a new revision
SnapshotStep(st) ==
    IF st.err # None \/ st.live = NoFile THEN st
    ELSE [st EXCEPT !.steps = Append(@, "snapshot"),
                    !.revisions = cache_store_revision(@, st.nextRev, st.live),
                    !.snap = st.nextRev,
                    !.nextRev = @ + 1]

\* 4. overwrite the resource file with the model, serialized
WriteStep(st) ==
    IF st.err # None THEN st
    ELSE [st EXCEPT !.steps = Append(@, "write"), !.live = Serialize(st.model)]

\* 5. drop the in-memory copy of the resource
InvalidateStepMut(st) ==
    IF st.err # None THEN st ELSE [st EXCEPT !.steps = Append(@, "invalidate")]
InvalidateStep(st) ==
    IF st.err # None THEN st
    ELSE [st EXCEPT !.steps = Append(@, "invalidate"), !.mem = NoFile]

fmu_dir_restore_from_cacheMutSnapshotFirst(revision_id) ==
    InvalidateStep(WriteStep(ValidateStep(ReadStep(SnapshotStep(RestoreStart(revision_id))))))
fmu_dir_restore_from_cacheMutNoSnapshot(revision_id) ==
    InvalidateStep(WriteStep(ValidateStep(ReadStep(RestoreStart(revision_id)))))
fmu_dir_restore_from_cache(revision_id) ==
    InvalidateStep(WriteStep(SnapshotStep(ValidateStep(ReadStep(RestoreStart(revision_id))))))

\* `except (FileNotFoundError, ValueError): ... raise` in ResourceService: the
\* error goes on to the caller
ReRaiseMut(err) == None
ReRaise(err) == err

\* CacheContent(data=...): the model's one field is `content`, which is
\* required, so constructing it raises pydantic's ValidationError (a ValueError)
CacheContent_data(model) == ValidationError

NoCall ==
    [seq |-> 0, op |-> "none", revision_id |-> 0, err |-> None, ret |-> None,
     prev |-> NoFile, snap |-> 0, steps |-> <<>>, undo |-> FALSE, managed |-> TRUE]

\* what a call leaves in rcall
Called(op, revision_id, err, ret) ==
    [NoCall EXCEPT !.seq = 1 - rcall.seq, !.op = op, !.revision_id = revision_id,
                   !.err = err, !.ret = ret]

CacheIdle ==
    /\ live = NoFile
    /\ mem = NoFile
    /\ revisions = <<>>
    /\ nextRev = 1
    /\ rcall = NoCall

\* a project whose config.json is there (written by the serializer) or not yet
CacheInit ==
    /\ live \in {NoFile} \cup {Serialize([doc |-> d]) : d \in ValidDocs}
    /\ mem = NoFile
    /\ revisions = <<>>
    /\ nextRev = 1
    /\ rcall = NoCall

\* cache.store_revision(resource, content), called on demand
store_revision(content) ==
    /\ nextRev <= MaxRevisionId
    /\ revisions' = cache_store_revision(revisions, nextRev, content)
    /\ nextRev' = nextRev + 1
    /\ rcall' = Called("store_revision", nextRev, None, RevisionPath(nextRev))
    /\ UNCHANGED <<live, mem>>
    /\ UNCHANGED <<sessionVars, tokenVars, diffVars, routeVars>>

\* manager.load(force): the in-memory copy unless forced or absent, else the
\* file, parsed, which becomes the in-memory copy
load(force) ==
    /\ IF live = NoFile /\ (force \/ mem = NoFile)
       THEN /\ rcall' = Called("load", 0, FileNotFoundError, None)
            /\ UNCHANGED mem
       ELSE LET model == IF force \/ mem = NoFile THEN Parse(live) ELSE mem
            IN /\ mem' = model
               /\ rcall' = Called("load", 0, None, model)
    /\ UNCHANGED <<live, revisions, nextRev>>
    /\ UNCHANGED <<sessionVars, tokenVars, diffVars, routeVars>>

\* ResourceService.list_cache_revisions(resource)
list_cache_revisions_call ==
    /\ rcall' = Called("list_cache_revisions", 0, None, list_cache_revisions(revisions))
    /\ UNCHANGED <<live, mem, revisions, nextRev>>
    /\ UNCHANGED <<sessionVars, tokenVars, diffVars, routeVars>>

\* ResourceService.get_cache_content(resource, revision_id)
get_cache_content(revision_id) ==
    /\ LET got == fmu_dir_get_cache_content(revisions, revision_id)
       IN rcall' = IF got.err # None
                   THEN Called("get_cache_content", revision_id, ReRaise(got.err), None)
                   ELSE Called("get_cache_content", revision_id,
                               ReRaise(CacheContent_data(got.model)), None)
    /\ UNCHANGED <<live, mem, revisions, nextRev>>
    /\ UNCHANGED <<sessionVars, tokenVars, diffVars, routeVars>>

\* ------------------------------------------------------------ structured diff
\* the longest list field drawn for a diff
MaxListLen == 2

\* the names the records of a list field carry, and the rest of their content
Names == {"2", "10"}
Payloads == {"a", "b"}

\* the values of a model's fields: integers, lists, None, and the pydantic
\* models that are the records of a list field
IntValue(n) == [cls |-> "int", value |-> n]
List(items) == [cls |-> "list", items |-> items]
Zone(name, val) == [cls |-> "Zone", name |-> name, val |-> val]
Zones == {Zone(n, v) : n \in Names, v \in Payloads}
ListsOf(n) == UNION {[1..k -> Zones] : k \in 0..n}
ListValues == {None} \cup {List(items) : items \in ListsOf(MaxListLen)}

\* the characters of a string, as code points
Chars(s) ==
    CASE s = "2" -> <<50>>
      [] s = "10" -> <<49, 48>>
      [] s = "a" -> <<97>>
      [] s = "b" -> <<98>>

\* a < b for Python strings: the first differing character decides, a proper
\* prefix is smaller
RECURSIVE LexLess(_, _)
LexLess(a, b) ==
    IF a = <<>> THEN b # <<>>
    ELSE IF b = <<>> THEN FALSE
    ELSE IF Head(a) # Head(b) THEN Head(a) < Head(b)
    ELSE LexLess(Tail(a), Tail(b))

\* ResourceService._LIST_DIFF_KEYS: the list fields diffed record by record,
\* and the attribute that identifies a record
_LIST_DIFF_KEYS ==
    [path \in {"rms.zones", "rms.horizons", "rms.wells", "masterdata.smda.country",
               "masterdata.smda.discovery", "masterdata.smda.field",
               "stratigraphy.root"} |->
        IF path \in {"rms.zones", "rms.horizons", "rms.wells"} THEN "name"
        ELSE IF path = "stratigraphy.root" THEN "__full__"
        ELSE "uuid"]

\* ResourceService._dump_value: a pydantic model becomes a plain dict, any
\* other value is passed on
_dump_value(value) ==
    IF value.cls = "Zone"
    THEN [cls |-> "dict", name |-> value.name, val |-> value.val]
    ELSE value

\* a _get_key that reads the name whatever the key field
_get_keyMut(item, key_field) == item.name
\* _get_key of _build_list_diff: the JSON text of the whole record for
\* "__full__", the named attribute otherwise
_get_key(item, key_field) ==
    IF key_field = "__full__"
    THEN [cls |-> "str", json |-> _dump_value(item)]
    ELSE item[key_field]

\* str(key): a name is its own text; the JSON text of a record, keys sorted,
\* is {"name": "<name>", "val": "<val>"}: what differs between two such
\* texts is the name, its closing quote, the value, its closing quote
str(key, key_field) ==
    IF key_field = "__full__"
    THEN Chars(key.json.name) \o <<34>> \o Chars(key.json.val) \o <<34>>
    ELSE Chars(key)

\* sorted(keys, key=str, reverse=True)
sorted_by_strMut(keys, key_field) ==
    CHOOSE seq \in [1..Cardinality(keys) -> keys] :
        \A i, j \in DOMAIN seq :
            i < j => LexLess(str(seq[j], key_field), str(seq[i], key_field))

\* sorted(keys, key=str)
sorted_by_str(keys, key_field) ==
    CHOOSE seq \in [1..Cardinality(keys) -> keys] :
        \A i, j \in DOMAIN seq :
            i < j => LexLess(str(seq[i], key_field), str(seq[j], key_field))

\* {_get_key(item): item for item in items}: of two items with one key the
\* later one stays
keyed_map(items, key_field) ==
    [k \in {_get_key(items[i], key_field) : i \in DOMAIN items} |->
        LET last == CHOOSE i \in DOMAIN items :
                       /\ _get_key(items[i], key_field) = k
                       /\ \A j \in DOMAIN items :
                              _get_key(items[j], key_field) = k => j <= i
        IN items[last]]

\* a comprehension that leaves out the first item
dump_allMut(items) == [i \in 1..(Len(items) - 1) |-> _dump_value(items[i + 1])]
\* [self._dump_value(item) for item in items]
dump_all(items) == [i \in DOMAIN items |-> _dump_value(items[i])]

\* ResourceService._build_list_diff(current, selected, key_field) that
\* reports a record under updated whenever its key is in both lists
_build_list_diffMut(current, selected, key_field) ==
    LET current_items == IF current = None THEN <<>> ELSE current.items
        selected_items == IF selected = None THEN <<>> ELSE selected.items
        current_map == keyed_map(current_items, key_field)
        selected_map == keyed_map(selected_items, key_field)
        current_keys == DOMAIN current_map
        selected_keys == DOMAIN selected_map
        IsAdded(item) == _get_key(item, key_field) \notin current_keys
        IsRemoved(item) == _get_key(item, key_field) \notin selected_keys
        common == sorted_by_str(current_keys \cap selected_keys, key_field)
    IN [added |-> dump_all(SelectSeq(selected_items, IsAdded)),
        removed |-> dump_all(SelectSeq(current_items, IsRemoved)),
        updated |-> [i \in DOMAIN common |->
                        [key |-> common[i],
                         before |-> _dump_value(current_map[common[i]]),
                         after |-> _dump_value(selected_map[common[i]])]]]

\* ResourceService._build_list_diff(current, selected, key_field)
_build_list_diff(current, selected, key_field) ==
    LET current_items == IF current = None THEN <<>> ELSE current.items
        selected_items == IF selected = None THEN <<>> ELSE selected.items
        current_map == keyed_map(current_items, key_field)
        selected_map == keyed_map(selected_items, key_field)
        current_keys == DOMAIN current_map
        selected_keys == DOMAIN selected_map
        IsAdded(item) == _get_key(item, key_field) \notin current_keys
        IsRemoved(item) == _get_key(item, key_field) \notin selected_keys
        Differs(key_value) == current_map[key_value] # selected_map[key_value]
        changed == SelectSeq(sorted_by_str(current_keys \cap selected_keys, key_field),
                            Differs)
    IN [added |-> dump_all(SelectSeq(selected_items, IsAdded)),
        removed |-> dump_all(SelectSeq(current_items, IsRemoved)),
        updated |-> [i \in DOMAIN changed |->
                        [key |-> changed[i],
                         before |-> _dump_value(current_map[changed[i]]),
                         after |-> _dump_value(selected_map[changed[i]])]]]

\* the body of the loop of get_cache_diff over one change (path, current,
\* selected): a list entry for a field of _LIST_DIFF_KEYS, a scalar entry
\* otherwise
diff_entry(change) ==
    LET path == change[1]
        current == change[2]
        selected == change[3]
    IN IF path \in DOMAIN _LIST_DIFF_KEYS
       THEN LET list_diff == _build_list_diff(current, selected, _LIST_DIFF_KEYS[path])
            IN [field_path |-> path, added |-> list_diff.added,
                removed |-> list_diff.removed, updated |-> list_diff.updated]
       ELSE [field_path |-> path,
             updated |-> [before |-> _dump_value(current),
                          after |-> _dump_value(selected)]]

\* the results get_cache_diff builds from the changes of the two models
get_cache_diff_results(changes) == [i \in DOMAIN changes |-> diff_entry(changes[i])]

\* the fields of a resource model, in the order the model declares them
FieldPaths == <<"cache_max_revisions", "rms.zones", "stratigraphy.root">>

\* a resource model with a scalar field and a list field at list_path
Model(list_path, scalar, list) == ("cache_max_revisions" :> scalar) @@ (list_path :> list)

\* manager.get_model_diff that reports every field, changed or not
get_model_diffMut(current_model, cached_model) ==
    LET Has(path) == path \in DOMAIN current_model
        have == SelectSeq(FieldPaths, Has)
    IN [i \in DOMAIN have |-> <<have[i], current_model[have[i]], cached_model[have[i]]>>]

\* manager.get_model_diff(current_model, cached_model): one change (path,
\* current value, cached value) for each field whose two values are not equal
get_model_diff(current_model, cached_model) ==
    LET Changed(path) == /\ path \in DOMAIN current_model
                         /\ current_model[path] # cached_model[path]
        changed == SelectSeq(FieldPaths, Changed)
    IN [i \in DOMAIN changed |->
           <<changed[i], current_model[changed[i]], cached_model[changed[i]]>>]

\* the fields of the documents of the resource cache
Fields(model) ==
    IF model.doc = "n0" THEN Model("rms.zones", IntValue(0), None)
    ELSE Model("rms.zones", IntValue(1), List(<<Zone("2", "a")>>))

\* the pairs of models a diff is asked for
DiffInputs ==
    {[path |-> path, current |-> Model(path, IntValue(c), cl), selected |-> Model(path, IntValue(s), sl)] :
        path \in {"rms.zones", "stratigraphy.root"}, c \in {0, 1}, s \in {0, 1},
        cl \in ListValues, sl \in ListValues}

NoDiffIn == [path |-> "none", current |-> None, selected |-> None]
NoDiffOut == [diffed |-> FALSE, results |-> <<>>, built |-> FALSE, list_diff |-> None]

DiffIdle ==
    /\ diffIn = NoDiffIn
    /\ diffOut = NoDiffOut

\* the diff of the two models of diffIn, as get_cache_diff answers it
get_cache_diff_apply ==
    /\ diffIn.path # "none"
    /\ ~diffOut.diffed
    /\ diffOut' = [diffOut EXCEPT !.diffed = TRUE,
                      !.results = get_cache_diff_results(
                                      get_model_diff(diffIn.current, diffIn.selected))]
    /\ UNCHANGED diffIn
    /\ UNCHANGED <<sessionVars, tokenVars, cacheVars, routeVars>>

\* _build_list_diff applied to the list field of the two models of diffIn
_build_list_diff_apply ==
    /\ diffIn.path # "none"
    /\ ~diffOut.built
    /\ diffOut' = [diffOut EXCEPT !.built = TRUE,
                      !.list_diff = _build_list_diff(diffIn.current[diffIn.path],
                                                     diffIn.selected[diffIn.path],
                                                     _LIST_DIFF_KEYS[diffIn.path])]
    /\ UNCHANGED diffIn
    /\ UNCHANGED <<sessionVars, tokenVars, cacheVars, routeVars>>

\* the error of get_cache_diff for a resource no manager is registered for
NotSupportedForDiff(resource) ==
    [cls |-> "ValueError", resource |-> resource,
     detail |-> "is not supported for diff operations"]

\* the manager of the resource is always taken to be there
ManagerMissingMut(manager) == FALSE

\* if manager is None
ManagerMissing(manager) == manager = None

\* self._fmu_dir._cacheable_resource_managers().get(resource_path)
cacheable_resource_manager(registered) ==
    IF registered THEN [cls |-> "ProjectConfigManager"] ELSE None

\* a load whose store_cache writes the loaded file into the revision cache
load_store_cacheMut(revs, id, content) == cache_store_revision(revs, id, content)
\* what manager.load(force=True, store_cache=True) does to the revision cache:
\* store_cache keeps the loaded model in the manager's memory, the revisions
\* on disk are the ones there were
load_store_cache(revs, id, content) == revs

\* ResourceService.get_cache_diff(resource, revision_id): without a manager
\* of the resource the call is refused; otherwise the file is loaded afresh
\* (and kept in memory), the revision is read, the two are compared
get_cache_diff(registered, revision_id) ==
    /\ IF ManagerMissing(cacheable_resource_manager(registered))
       THEN /\ rcall' = [Called("get_cache_diff", revision_id,
                                NotSupportedForDiff("config.json"), None)
                            EXCEPT !.managed = registered]
            /\ UNCHANGED <<mem, revisions>>
       ELSE IF live = NoFile
       THEN /\ rcall' = [Called("get_cache_diff", revision_id, FileNotFoundError, None)
                            EXCEPT !.managed = registered]
            /\ UNCHANGED <<mem, revisions>>
       ELSE LET current_model == Parse(live)
                revs == load_store_cache(revisions, nextRev, live)
                got == fmu_dir_get_cache_content(revs, revision_id)
                results == IF got.err # None THEN <<>>
                           ELSE get_cache_diff_results(
                                    get_model_diff(Fields(current_model), Fields(got.model)))
            IN /\ mem' = current_model
               /\ revisions' = revs
               /\ rcall' = [Called("get_cache_diff", revision_id, got.err,
                                   IF got.err # None THEN None ELSE results)
                               EXCEPT !.managed = registered]
    /\ UNCHANGED <<live, nextRev>>
    /\ UNCHANGED <<sessionVars, tokenVars, diffVars, routeVars>>

\* ResourceService.restore_from_cache(resource, revision_id)
restore_from_cache(revision_id) ==
    /\ nextRev <= MaxRevisionId
    /\ LET st == fmu_dir_restore_from_cache(revision_id)
       IN /\ live' = st.live
          /\ mem' = st.mem
          /\ revisions' = st.revisions
          /\ nextRev' = st.nextRev
          /\ rcall' = [Called("restore_from_cache", revision_id, ReRaise(st.err), None)
                          EXCEPT !.prev = live, !.snap = st.snap, !.steps = st.steps,
                                 !.undo = /\ rcall.op = "restore_from_cache"
                                          /\ rcall.snap # 0
                                          /\ rcall.snap = revision_id]
    /\ UNCHANGED <<sessionVars, tokenVars, diffVars, routeVars>>

\* ------------------------------------------------------------ HTTP routes
\* the x-fmu-settings-api header of a request: absent, the token of this
\* server, another token
ReqTokens == {"none", "good", "bad"}

\* the response that lets a dependency pass
Pass == [status |-> 0, detail |-> ""]

NoResp ==
    [seq |-> 0, route |-> "none", cookie |-> NoSid, token |-> "none",
     nearest |-> NoProject, status |-> 0, detail |-> "", set_cookie |-> NoSid,
     project |-> NoProject, searched |-> FALSE]

\* no get_lock_status call made yet
NoLockStatus ==
    [seq |-> 0, sid |-> NoSid, project |-> NoProject, is_acquired |-> None,
     exists |-> None, load |-> None, err |-> None, ret |-> None]

RouteIdle ==
    /\ resp = NoResp
    /\ lstat = NoLockStatus

\* what a request leaves in resp
Responded(route, cookie, token, nearest, status, detail) ==
    [NoResp EXCEPT !.seq = 1 - resp.seq, !.route = route, !.cookie = cookie,
                   !.token = token, !.nearest = nearest, !.status = status,
                   !.detail = detail]

\* APIKeyHeader and deps.verify_auth_token
verify_auth_token(req_token) ==
    IF req_token = "none" THEN [status |-> 403, detail |-> "Not authenticated"]
    ELSE IF req_token # "good" THEN [status |-> 401, detail |-> "Not authorized"]
    ELSE Pass

\* the session cookie is always taken to be there
cookie_missingMut(fmu_settings_session) == FALSE

\* get_fmu_session: if not fmu_settings_session
cookie_missing(fmu_settings_session) == fmu_settings_session = NoSid

\* the handler that answers POST /session never finds a cookie
session_already_existsMut(fmu_settings_session) == FALSE

\* v1/main.py create_session: if fmu_settings_session
session_already_exists(fmu_settings_session) == fmu_settings_session # NoSid

\* get_project never takes the project of the session
has_projectMut(session) == FALSE

\* get_project: isinstance(session, ProjectSession)
has_project(session) == isinstance(session, "ProjectSession")

\* SessionManager.get_session(session_id) at time t, run from its first line
\* to its return: the storage it leaves and what it returns
get_session_run(st, session_id, t) ==
    LET session == _retrieve_session(st, session_id)
    IN IF ~Truthy(session) THEN [storage |-> st, ret |-> None]
       ELSE IF IsExpired(session, t)
       THEN [storage |-> DelItem(st, session_id), ret |-> None]
       ELSE [storage |-> _store_session(st, session_id, Touch(session, t)),
             ret |-> Touch(session, t)]

\* add_fmu_project_to_session(session_id, project_fmu_directory) at time t, run
\* from its first line to its return
add_fmu_project_to_session_run(st, session_id, project_fmu_directory, t) ==
    LET got == get_session_run(st, session_id, t)
    IN IF ~Truthy(got.ret) THEN [storage |-> got.storage, ret |-> SessionNotFoundError]
       ELSE LET project_session ==
                    add_fmu_project_to_session_record(got.ret, project_fmu_directory)
            IN [storage |-> _store_session(got.storage, session_id, project_session),
                ret |-> project_session]

Init ==
    /\ now = 0
    /\ nextId = 1
    /\ storage = <<>>
    /\ lockLog = <<>>
    /\ lockHeld = {}
    /\ lockBusy = {2}
    /\ running = NoTask
    /\ task = [t \in Tasks |-> IdleTask]
    /\ access_tokens = <<>>
    /\ tokCall = NoTokCall
    /\ CacheIdle
    /\ DiffIdle
    /\ RouteIdle

\* time passes
Tick ==
    /\ now < MaxTime
    /\ now' = now + 1
    /\ UNCHANGED <<nextId, storage, lockLog, lockHeld, lockBusy, running, task>>
    /\ UNCHANGED <<tokenVars, cacheVars, diffVars, routeVars>>

\* SessionManager.create_session (create_fmu_session)
create_session(expire_seconds) ==
    /\ running = NoTask
    /\ storage' = _store_session(storage, nextId,
                                 Session(nextId, "user", now, now + expire_seconds, now))
    /\ nextId' = nextId + 1
    /\ UNCHANGED <<now, lockLog, lockHeld, lockBusy, running, task>>
    /\ UNCHANGED <<tokenVars, cacheVars, diffVars, routeVars>>

\* a request arrives: the event loop, between two callbacks, schedules the
\* coroutine for op(sid, project).  ov notes the operations already in flight
\* on the same session id: this call overlaps them.
Call(t, op, sid, project) ==
    /\ running = NoTask
    /\ task[t].pc = "idle"
    /\ \A u \in Tasks : u < t => InFlight(u)
    /\ sid \in 1..(nextId - 1)
    /\ (op = "attach") = (project # NoProject)
    /\ task' = [task EXCEPT ![t] =
                   [IdleTask EXCEPT !.pc = "start", !.op = op, !.sid = sid,
                                    !.project = project,
                                    !.ov = {task[u].op : u \in {v \in Tasks \ {t} :
                                               InFlight(v) /\ task[v].sid = sid}}]]
    /\ UNCHANGED <<now, nextId, storage, lockLog, lockHeld, lockBusy, running>>
    /\ UNCHANGED <<tokenVars, cacheVars, diffVars, routeVars>>

\* get_session line 103, destroy_session line 74: await self._retrieve_session
Retrieve(t) ==
    /\ task[t].pc = "start"
    /\ CanRun(t)
    /\ task' = [task EXCEPT ![t].pc = IF task[t].op = "destroy" THEN "del" ELSE "check",
                            ![t].session = _retrieve_session(storage, task[t].sid),
                            ![t].mark = Len(lockLog)]
    /\ running' = LoopAfter(t)
    /\ UNCHANGED <<now, nextId, storage, lockLog, lockHeld, lockBusy>>
    /\ UNCHANGED <<tokenVars, cacheVars, diffVars, routeVars>>

\* get_session lines 104-113: no session, expired session (destroy_session is
\* entered and retrieves the session again), or last_accessed is refreshed
get_session_check(t) ==
    /\ task[t].pc = "check"
    /\ CanRun(t)
    /\ LET session == task[t].session
       IN IF ~Truthy(session)
          THEN /\ Answer(t, OnNoSession(task[t].op))
               /\ UNCHANGED storage
          ELSE IF IsExpired(session, now)
          THEN /\ task' = [task EXCEPT ![t].pc = "del", ![t].at = now,
                                       ![t].session =
                                           _retrieve_session(storage, task[t].sid)]
               /\ running' = LoopAfter(t)
               /\ UNCHANGED storage
          ELSE LET touched == Touch(session, now)
               IN /\ storage' = _store_session(storage, task[t].sid, touched)
                  /\ task' = [task EXCEPT ![t].pc = "finish", ![t].at = now,
                                          ![t].session = touched]
                  /\ running' = LoopAfter(t)
    /\ UNCHANGED <<now, nextId, lockLog, lockHeld, lockBusy>>
    /\ UNCHANGED <<tokenVars, cacheVars, diffVars, routeVars>>

\* destroy_session lines 75-76, then (inside get_session) line 110
destroy_session_del(t) ==
    /\ task[t].pc = "del"
    /\ CanRun(t)
    /\ LET session == task[t].session
           sid == task[t].sid
           locks == RunLockCalls(destroy_session_lock_calls(session),
                                 lockLog, lockHeld, lockBusy)
       IN IF session.cls = "NoneType"
          THEN /\ Answer(t, OnNoSession(task[t].op))
               /\ UNCHANGED <<storage, lockLog, lockHeld>>
          ELSE IF sid \in DOMAIN storage
          THEN /\ storage' = DelItem(storage, sid)
               /\ lockLog' = locks.log
               /\ lockHeld' = locks.held
               /\ Answer(t, OnNoSession(task[t].op))
          ELSE /\ Answer(t, KeyError)
               /\ UNCHANGED <<storage, lockLog, lockHeld>>
    /\ UNCHANGED <<now, nextId, lockBusy>>
    /\ UNCHANGED <<tokenVars, cacheVars, diffVars, routeVars>>

\* get_session line 114 returning to its caller outside this module
get_session_return(t) ==
    /\ task[t].pc = "finish"
    /\ task[t].op = "get"
    /\ CanRun(t)
    /\ Answer(t, task[t].session)
    /\ UNCHANGED <<now, nextId, storage, lockLog, lockHeld, lockBusy>>
    /\ UNCHANGED <<tokenVars, cacheVars, diffVars, routeVars>>

\* add_fmu_project_to_session lines 141-152
add_fmu_project_to_session(t) ==
    /\ task[t].pc = "finish"
    /\ task[t].op = "attach"
    /\ CanRun(t)
    /\ LET session == task[t].session
           project_session ==
               add_fmu_project_to_session_record(session, task[t].project)
           locks == RunLockCalls(
                        add_fmu_project_to_session_lock_calls(session, task[t].project),
                        lockLog, lockHeld, lockBusy)
       IN /\ storage' = _store_session(storage, task[t].sid, project_session)
          /\ lockLog' = locks.log
          /\ lockHeld' = locks.held
          /\ Answer(t, project_session)
    /\ UNCHANGED <<now, nextId, lockBusy>>
    /\ UNCHANGED <<tokenVars, cacheVars, diffVars, routeVars>>

\* remove_fmu_project_from_session lines 166-174
remove_fmu_project_from_session(t) ==
    /\ task[t].pc = "finish"
    /\ task[t].op = "detach"
    /\ CanRun(t)
    /\ LET session == task[t].session
           res == remove_fmu_project_from_session_result(session)
           locks == RunLockCalls(remove_fmu_project_from_session_lock_calls(session),
                                 lockLog, lockHeld, lockBusy)
       IN /\ storage' = IF res.store
                        THEN _store_session(storage, task[t].sid, res.ret)
                        ELSE storage
          /\ lockLog' = locks.log
          /\ lockHeld' = locks.held
          /\ Answer(t, res.ret)
    /\ UNCHANGED <<now, nextId, lockBusy>>
    /\ UNCHANGED <<tokenVars, cacheVars, diffVars, routeVars>>

\* the response of task t is handed over: its slot and the event loop are free
Return(t) ==
    /\ task[t].pc = "done"
    /\ task' = [task EXCEPT ![t] = IdleTask]
    /\ running' = NoTask
    /\ UNCHANGED <<now, nextId, storage, lockLog, lockHeld, lockBusy>>
    /\ UNCHANGED <<tokenVars, cacheVars, diffVars, routeVars>>

\* POST /session, answered by create_session of v1/main.py (the router of
\* v1/routes/session.py is not included by api_v1_router).  nearest is the
\* project .fmu directory at or above the working directory, if any.
post_session(fmu_settings_session, req_token, nearest) ==
    /\ running = NoTask
    /\ LET route == "POST /session"
           auth == verify_auth_token(req_token)
           session_id == nextId
           created == _store_session(storage, session_id,
                                     Session(session_id, "user", now,
                                             now + ExpireTicks, now))
           added == add_fmu_project_to_session_run(created, session_id, nearest, now)
       IN IF auth # Pass
          THEN /\ resp' = Responded(route, fmu_settings_session, req_token, nearest,
                                    auth.status, auth.detail)
               /\ UNCHANGED <<storage, nextId>>
          ELSE IF session_already_exists(fmu_settings_session)
          THEN /\ resp' = Responded(route, fmu_settings_session, req_token, nearest,
                                    409, "A session already exists")
               /\ UNCHANGED <<storage, nextId>>
          ELSE /\ nextId <= MaxSessions
               /\ nextId' = nextId + 1
               /\ storage' = IF nearest = NoProject THEN created ELSE added.storage
               /\ resp' = [Responded(route, fmu_settings_session, req_token, nearest,
                                     200, "")
                              EXCEPT !.set_cookie = session_id, !.project = nearest,
                                     !.searched = TRUE]
    /\ UNCHANGED <<now, lockLog, lockHeld, lockBusy, running, task, lstat>>
    /\ UNCHANGED <<tokenVars, cacheVars, diffVars>>

\* GET /project: the dependency get_fmu_session, then get_project
get_project(fmu_settings_session, req_token, nearest) ==
    /\ running = NoTask
    /\ LET route == "GET /project"
           got == get_session_run(storage, fmu_settings_session, now)
           session == got.ret
           added == add_fmu_project_to_session_run(got.storage, fmu_settings_session,
                                                   nearest, now)
       IN IF cookie_missing(fmu_settings_session)
          THEN /\ resp' = Responded(route, fmu_settings_session, req_token, nearest,
                                    401, "No active session found")
               /\ UNCHANGED storage
          ELSE IF ~Truthy(session)
          THEN /\ resp' = Responded(route, fmu_settings_session, req_token, nearest,
                                    401, "Invalid or expired session")
               /\ storage' = got.storage
          ELSE IF has_project(session)
          THEN /\ resp' = [Responded(route, fmu_settings_session, req_token, nearest,
                                     200, "")
                              EXCEPT !.project = session.project_fmu_directory]
               /\ storage' = got.storage
          ELSE IF nearest = NoProject
          THEN /\ resp' = [Responded(route, fmu_settings_session, req_token, nearest,
                                     404, "No .fmu directory found from {path}")
                              EXCEPT !.searched = TRUE]
               /\ storage' = got.storage
          ELSE /\ resp' = [Responded(route, fmu_settings_session, req_token, nearest,
                                     200, "")
                              EXCEPT !.project = nearest, !.searched = TRUE]
               /\ storage' = added.storage
    /\ UNCHANGED <<now, nextId, lockLog, lockHeld, lockBusy, running, task, lstat>>
    /\ UNCHANGED <<tokenVars, cacheVars, diffVars>>

\* ------------------------------------------------------------ lock status
\* a Python bool
Bool(b) == [cls |-> "bool", value |-> b]

\* what a call on the project's lock gives: a value returned, an exception raised
Returned(v) == [err |-> None, ret |-> v]
Raised(e) == [err |-> e, ret |-> None]

\* the exceptions a call on the lock may raise, each with its text str(e)
LockFailureClasses == {"OSError", "PermissionError", "ValueError", "RuntimeError"}
LockFailures == {[cls |-> c, msg |-> c] : c \in LockFailureClasses}

\* the content of a lock file that loads
LockInfo == [cls |-> "LockInfo", pid |-> 1]

\* fmu_dir._lock.is_acquired(), fmu_dir._lock.exists, fmu_dir._lock.load(...)
IsAcquiredOutcomes == {Returned(Bool(b)) : b \in BOOLEAN} \cup {Raised(e) : e \in LockFailures}
ExistsOutcomes == {Returned(Bool(b)) : b \in BOOLEAN} \cup {Raised(e) : e \in LockFailures}
LoadOutcomes == {Returned(LockInfo)} \cup {Raised(e) : e \in LockFailures}

\* ProjectSession.lock_errors: the last error text of acquire, release and
\* refresh, each None when there was none
LockErrors(acquire, release, refresh) ==
    [cls |-> "LockErrors", acquire |-> acquire, release |-> release, refresh |-> refresh]

\* f"{prefix}{str(e)}"
Text(prefix, e) == [cls |-> "str", prefix |-> prefix, e |-> e.msg]

LockErrorsValues ==
    {LockErrors(None, None, None),
     LockErrors(Text("", [msg |-> "acquire failed"]), None, None)}

\* an is_acquired() whose failure is reported as a lock that is held
check_is_acquiredMut(is_acquired) ==
    IF is_acquired.err # None
    THEN [is_lock_acquired |-> Bool(TRUE),
          lock_status_error |-> Text("Failed to check lock status: ", is_acquired.err)]
    ELSE [is_lock_acquired |-> is_acquired.ret, lock_status_error |-> None]

\* get_lock_status lines 106-115: is_lock_acquired and lock_status_error
check_is_acquired(is_acquired) ==
    IF is_acquired.err # None
    THEN [is_lock_acquired |-> Bool(FALSE),
          lock_status_error |-> Text("Failed to check lock status: ", is_acquired.err)]
    ELSE [is_lock_acquired |-> is_acquired.ret, lock_status_error |-> None]

\* the except clauses around fmu_dir._lock.load, in their order
load_error_text(e) ==
    IF e.cls \in {"OSError", "PermissionError"} THEN Text("Failed to read lock file: ", e)
    ELSE IF e.cls = "ValueError" THEN Text("Failed to parse lock file: ", e)
    ELSE Text("Failed to process lock file: ", e)

\* the lock file is loaded only when it is found to exist
load_called(exists) == exists.err = None /\ exists.ret.value

\* get_lock_status lines 107-109, 117-131: lock_file_exists, lock_info and
\* lock_file_read_error
read_lock_file(exists, lock_load) ==
    IF exists.err # None
    THEN [lock_file_exists |-> Bool(FALSE), lock_info |-> None,
          lock_file_read_error |-> Text("Failed to access lock file path: ", exists.err)]
    ELSE IF ~exists.ret.value
    THEN [lock_file_exists |-> Bool(FALSE), lock_info |-> None, lock_file_read_error |-> None]
    ELSE IF lock_load.err # None
    THEN [lock_file_exists |-> Bool(TRUE), lock_info |-> None,
          lock_file_read_error |-> load_error_text(lock_load.err)]
    ELSE [lock_file_exists |-> Bool(TRUE), lock_info |-> lock_load.ret,
          lock_file_read_error |-> None]

\* LockStatus(...) of lines 133-142
LockStatus(checked, read, lock_errors) ==
    [cls |-> "LockStatus",
     is_lock_acquired |-> checked.is_lock_acquired,
     lock_file_exists |-> read.lock_file_exists,
     lock_info |-> read.lock_info,
     lock_status_error |-> checked.lock_status_error,
     lock_file_read_error |-> read.lock_file_read_error,
     last_lock_acquire_error |-> lock_errors.acquire,
     last_lock_release_error |-> lock_errors.release,
     last_lock_refresh_error |-> lock_errors.refresh]

\* SessionService(session).get_lock_status() for the session stored under
\* session_id, the calls on the lock giving is_acquired, exists and load
get_lock_status(session_id, is_acquired, exists, lock_load, lock_errors) ==
    /\ running = NoTask
    /\ session_id \in DOMAIN storage
    /\ LET project_session == storage[session_id]
           called == [NoLockStatus EXCEPT !.seq = 1 - lstat.seq, !.sid = session_id]
       IN IF ~isinstance(project_session, "ProjectSession")
          THEN lstat' = [called EXCEPT !.err = AttributeError]
          ELSE lstat' = [called EXCEPT
                            !.project = project_session.project_fmu_directory,
                            !.is_acquired = is_acquired,
                            !.exists = exists,
                            !.load = IF load_called(exists) THEN lock_load ELSE None,
                            !.ret = LockStatus(check_is_acquired(is_acquired),
                                               read_lock_file(exists, lock_load),
                                               lock_errors)]
    /\ UNCHANGED <<sessionVars, tokenVars, cacheVars, diffVars, resp>>

\* what get_fmu_directory(path) may give at a path: the project directory
\* there, or one of the errors post_project tells apart
OpenOutcomes == {"ok", "PermissionError", "FileNotFoundError", "FileExistsError"}

get_fmu_directory(outcome, path) ==
    CASE outcome = "ok" -> [err |-> None, fmu_dir |-> path]
      [] outcome = "PermissionError" -> [err |-> PermissionError, fmu_dir |-> NoProject]
      [] outcome = "FileNotFoundError" -> [err |-> FileNotFoundError, fmu_dir |-> NoProject]
      [] outcome = "FileExistsError" -> [err |-> FileExistsError, fmu_dir |-> NoProject]

\* the except clauses of post_project: the response to an error of the try
post_project_error(e) ==
    CASE e = SessionNotFoundError -> [status |-> 401, detail |-> "str(e)"]
      [] e = PermissionError -> [status |-> 403, detail |-> "Permission denied accessing .fmu at {path}"]
      [] e = FileNotFoundError -> [status |-> 404, detail |-> "No .fmu directory found at {path}"]
      [] e = FileExistsError -> [status |-> 409, detail |-> ".fmu exists at {path} but is not a directory"]
      [] OTHER -> [status |-> 500, detail |-> "str(e)"]

\* a try block that drops the session when the directory cannot be opened
post_project_tryMut(st, session_id, opened, t) ==
    IF opened.err # None THEN [storage |-> DelItem(st, session_id), ret |-> opened.err]
    ELSE add_fmu_project_to_session_run(st, session_id, opened.fmu_dir, t)

\* the try block of post_project: get_fmu_directory, and only if it gave a
\* directory, add_fmu_project_to_session
post_project_try(st, session_id, opened, t) ==
    IF opened.err # None THEN [storage |-> st, ret |-> opened.err]
    ELSE add_fmu_project_to_session_run(st, session_id, opened.fmu_dir, t)

\* POST /project: the dependency get_fmu_session, then post_project
post_project(fmu_settings_session, outcome, path) ==
    /\ running = NoTask
    /\ LET route == "POST /project"
           got == get_session_run(storage, fmu_settings_session, now)
           session == got.ret
           tried == post_project_try(got.storage, fmu_settings_session,
                                     get_fmu_directory(outcome, path), now)
           failed == post_project_error(tried.ret)
       IN IF cookie_missing(fmu_settings_session)
          THEN /\ resp' = Responded(route, fmu_settings_session, "none", path,
                                    401, "No active session found")
               /\ UNCHANGED storage
          ELSE IF ~Truthy(session)
          THEN /\ resp' = Responded(route, fmu_settings_session, "none", path,
                                    401, "Invalid or expired session")
               /\ storage' = got.storage
          ELSE IF ~isinstance(tried.ret, "ProjectSession")
          THEN /\ resp' = Responded(route, fmu_settings_session, "none", path,
                                    failed.status, failed.detail)
               /\ storage' = tried.storage
          ELSE /\ resp' = [Responded(route, fmu_settings_session, "none", path, 200, "")
                              EXCEPT !.project = tried.ret.project_fmu_directory]
               /\ storage' = tried.storage
    /\ UNCHANGED <<now, nextId, lockLog, lockHeld, lockBusy, running, task, lstat>>
    /\ UNCHANGED <<tokenVars, cacheVars, diffVars>>

Next ==
    \/ Tick
    \/ (nextId <= MaxSessions /\ create_session(ExpireTicks))
    \/ \E t \in Tasks, op \in Ops, sid \in SessionIds, p \in Projects \cup {NoProject} :
           Call(t, op, sid, p)
    \/ \E t \in Tasks : Retrieve(t)
    \/ \E t \in Tasks : get_session_check(t)
    \/ \E t \in Tasks : destroy_session_del(t)
    \/ \E t \in Tasks : get_session_return(t)
    \/ \E t \in Tasks : add_fmu_project_to_session(t)
    \/ \E t \in Tasks : remove_fmu_project_from_session(t)
    \/ \E t \in Tasks : Return(t)

Spec == Init /\ [][Next]_vars

\* requests handled one at a time (one request slot)
NextSeq ==
    \/ Tick
    \/ (nextId <= MaxSeqSessions /\ create_session(ExpireTicks))
    \/ \E op \in Ops, sid \in SeqSessionIds, p \in Projects \cup {NoProject} :
           Call(1, op, sid, p)
    \/ Retrieve(1)
    \/ get_session_check(1)
    \/ destroy_session_del(1)
    \/ get_session_return(1)
    \/ add_fmu_project_to_session(1)
    \/ remove_fmu_project_from_session(1)
    \/ Return(1)

SpecSeq == Init /\ [][NextSeq]_vars

\* sessions and their access tokens
NextTokens ==
    \/ Tick
    \/ (nextId <= MaxSeqSessions /\ create_session(ExpireTicks))
    \/ \E sid \in SeqSessionIds, id \in TokenIds, key \in Secrets :
           patch_access_token(sid, [id |-> id, key |-> key])

SpecTokens == Init /\ [][NextTokens]_vars

\* the resource cache of one project, its calls one at a time
InitCache ==
    /\ now = 0
    /\ nextId = 1
    /\ storage = <<>>
    /\ lockLog = <<>>
    /\ lockHeld = {}
    /\ lockBusy = {2}
    /\ running = NoTask
    /\ task = [t \in Tasks |-> IdleTask]
    /\ access_tokens = <<>>
    /\ tokCall = NoTokCall
    /\ CacheInit
    /\ DiffIdle
    /\ RouteIdle

NextCache ==
    \/ \E content \in Texts : store_revision(content)
    \/ \E force \in BOOLEAN : load(force)
    \/ list_cache_revisions_call
    \/ \E revision_id \in RevisionIds : get_cache_content(revision_id)
    \/ \E registered \in BOOLEAN, revision_id \in RevisionIds : get_cache_diff(registered, revision_id)
    \/ \E revision_id \in RevisionIds : restore_from_cache(revision_id)

SpecCache == InitCache /\ [][NextCache]_vars

\* the diff of two models drawn from the bounded sets
InitDiff ==
    /\ now = 0
    /\ nextId = 1
    /\ storage = <<>>
    /\ lockLog = <<>>
    /\ lockHeld = {}
    /\ lockBusy = {2}
    /\ running = NoTask
    /\ task = [t \in Tasks |-> IdleTask]
    /\ access_tokens = <<>>
    /\ tokCall = NoTokCall
    /\ CacheIdle
    /\ RouteIdle
    /\ diffIn \in DiffInputs
    /\ diffOut = NoDiffOut

NextDiff ==
    \/ get_cache_diff_apply
    \/ _build_list_diff_apply

SpecDiff == InitDiff /\ [][NextDiff]_vars

\* the routes POST /session and GET /project, their requests one at a time
RouteCookies == {NoSid} \cup SessionIds

NextRoutes ==
    \/ Tick
    \/ \E c \in RouteCookies, tok \in ReqTokens, p \in Projects \cup {NoProject} :
           post_session(c, tok, p)
    \/ \E c \in RouteCookies, tok \in ReqTokens, p \in Projects \cup {NoProject} :
           get_project(c, tok, p)
    \/ \E c \in RouteCookies, outcome \in OpenOutcomes, path \in Projects :
           post_project(c, outcome, path)

SpecRoutes == Init /\ [][NextRoutes]_vars

\* sessions started with and without a project, and their lock status asked
NextLockStatus ==
    \/ \E p \in Projects \cup {NoProject} : post_session(NoSid, "good", p)
    \/ \E sid \in SessionIds, is_acquired \in IsAcquiredOutcomes, exists \in ExistsOutcomes, lock_load \in LoadOutcomes, lock_errors \in LockErrorsValues :
           get_lock_status(sid, is_acquired, exists, lock_load, lock_errors)

SpecLockStatus == Init /\ [][NextLockStatus]_vars
\* ------------------------------------------------------------ properties
Done(t) == task[t].pc = "done"

\* the session task t read was a live one: present and not expired when read
ReadLive(t) == Truthy(task[t].session) /\ ~(task[t].session.expires_at < task[t].at)

\* the lock calls made since task t began, as <<operation, project>> pairs
CallsOf(t) ==
    [i \in 1..(Len(lockLog) - task[t].mark) |->
        <<lockLog[task[t].mark + i].op, lockLog[task[t].mark + i].project>>]

\* successful acquires minus releases of project p so far
Outstanding(p) ==
    Cardinality({i \in 1..Len(lockLog) : lockLog[i].project = p /\ lockLog[i].ok
                                          /\ lockLog[i].op = "acquire"})
    - Cardinality({i \in 1..Len(lockLog) : lockLog[i].project = p
                                            /\ lockLog[i].op = "release"})

\* the projects attached to the sessions in the store
AttachedProjects ==
    {storage[s].project_fmu_directory :
        s \in {k \in DOMAIN storage : storage[k].cls = "ProjectSession"}}

Mutating == {"attach", "detach", "destroy"}

C2_DetachDowngrades ==
    \A t \in Tasks :
        (Done(t) /\ task[t].op = "detach" /\ ReadLive(t)
                 /\ task[t].session.cls = "ProjectSession")
        => /\ task[t].sid \in DOMAIN storage
           /\ storage[task[t].sid].cls = "Session"
           /\ storage[task[t].sid].id = task[t].session.id
           /\ storage[task[t].sid].created_at = task[t].session.created_at
           /\ storage[task[t].sid].expires_at = task[t].session.expires_at
           /\ task[t].ret = storage[task[t].sid]

\* C3: an attach of project B on a live session that has another project A
\* attached releases A's lock once, then attempts B's acquire once, and
\* nothing else, and leaves B attached.
C3_SwitchReleasesThenAcquires ==
    \A t \in Tasks :
        (Done(t) /\ task[t].op = "attach" /\ ReadLive(t)
                 /\ task[t].session.cls = "ProjectSession"
                 /\ task[t].session.project_fmu_directory # task[t].project)
        => /\ CallsOf(t) = << <<"release", task[t].session.project_fmu_directory>>,
                              <<"acquire", task[t].project>> >>
           /\ task[t].sid \in DOMAIN storage
           /\ storage[task[t].sid].cls = "ProjectSession"
           /\ storage[task[t].sid].project_fmu_directory = task[t].project

\* C4: an attach, on a live session, of a project whose lock another process
\* holds does not fail: it returns the ProjectSession it stored, with the
\* project attached, the lock is not held, and the record keeps the reason in
\* lock_errors.acquire.
C4_AcquireFailureKept ==
    \A t \in Tasks :
        (Done(t) /\ task[t].op = "attach" /\ ReadLive(t)
                 /\ task[t].project \in lockBusy)
        => /\ task[t].ret.cls = "ProjectSession"
           /\ task[t].ret.project_fmu_directory = task[t].project
           /\ task[t].sid \in DOMAIN storage
           /\ storage[task[t].sid] = task[t].ret
           /\ task[t].project \notin lockHeld
           /\ "lock_errors" \in DOMAIN task[t].ret
           /\ task[t].ret.lock_errors.acquire # None

\* C5: destroy_session on a session with a project attached calls release on
\* that project's lock once, removes the record and does not fail.
C5_DestroyReleasesOnce ==
    \A t \in Tasks :
        (Done(t) /\ task[t].op = "destroy" /\ task[t].session.cls = "ProjectSession")
        => /\ CallsOf(t) = << <<"release", task[t].session.project_fmu_directory>> >>
           /\ task[t].sid \notin DOMAIN storage
           /\ task[t].ret = None

C7_HandlersSerialized ==
    \A t \in Tasks :
        /\ task[t].pc \in {"check", "del", "finish"}
              => task[t].session = _retrieve_session(storage, task[t].sid)
        /\ (Done(t) /\ task[t].op \in {"get", "attach", "detach"} /\ ReadLive(t))
              => _retrieve_session(storage, task[t].sid) = task[t].ret
        /\ (Done(t) /\ (task[t].op = "destroy" \/ ~ReadLive(t)))
              => task[t].sid \notin DOMAIN storage

C7_Witness ==
    \E t \in Tasks :
        /\ Done(t) /\ task[t].op \in Mutating /\ task[t].ov \cap Mutating # {}
        /\ \A u \in Tasks \ {t} : ~InFlight(u)
        /\ Truthy(task[t].session)

\* C8: an id that was handed out and is no longer in the store never comes
\* back into the store; a stored Session becomes a ProjectSession only in the
\* last step of an attach on its id, and a stored ProjectSession becomes a
\* Session only in the last step of a detach on its id.
C8_Step ==
    /\ \A sid \in 1..(nextId - 1) :
           sid \notin DOMAIN storage => sid \notin DOMAIN storage'
    /\ \A sid \in DOMAIN storage \cap DOMAIN storage' :
           /\ (storage[sid].cls = "Session" /\ storage'[sid].cls = "ProjectSession")
                 => \E t \in Tasks : /\ task[t].pc = "finish" /\ task'[t].pc = "done"
                                     /\ task[t].op = "attach" /\ task[t].sid = sid
           /\ (storage[sid].cls = "ProjectSession" /\ storage'[sid].cls = "Session")
                 => \E t \in Tasks : /\ task[t].pc = "finish" /\ task'[t].pc = "done"
                                     /\ task[t].op = "detach" /\ task[t].sid = sid

C8_DestroyedIsTerminal == [][C8_Step]_vars

C8_Witness ==
    \E t \in Tasks :
        /\ Done(t) /\ task[t].op \in {"get", "attach", "detach"}
        /\ task[t].session.cls = "NoneType"
        /\ task[t].sid \notin DOMAIN storage

\* C9: when a project whose lock is free is attached to a live session that
\* already has that same project attached, one acquisition of its lock is
\* outstanding: successful acquires minus releases is 1.
C9_OneAcquisitionOutstanding ==
    \A t \in Tasks :
        (Done(t) /\ task[t].op = "attach" /\ ReadLive(t)
                 /\ task[t].session.cls = "ProjectSession"
                 /\ task[t].session.project_fmu_directory = task[t].project
                 /\ task[t].project \notin lockBusy)
        => Outstanding(task[t].project) = 1

\* C10: remove_fmu_project_from_session on a live session with a project
\* attached calls release on that project's lock once and returns a Session
\* with the same id.
C10_DetachReleasesOnce ==
    \A t \in Tasks :
        (Done(t) /\ task[t].op = "detach" /\ ReadLive(t)
                 /\ task[t].session.cls = "ProjectSession")
        => /\ CallsOf(t) = << <<"release", task[t].session.project_fmu_directory>> >>
           /\ isinstance(task[t].ret, "Session")
           /\ task[t].ret.id = task[t].sid

\* no session operation is in progress
Quiet == \A u \in Tasks : task[u].pc \in {"idle", "done"}

\* task t has ended an operation by which a session with a project attached
\* left the store (destroy, or expiry found on read) or lost its project (detach)
Left(t) ==
    /\ Done(t)
    /\ task[t].session.cls = "ProjectSession"
    /\ \/ task[t].op = "destroy"
       \/ ~ReadLive(t)
       \/ task[t].op = "detach"

\* C11: whenever no session operation is in progress, every project lock this
\* process holds is the lock of a project attached to a stored session, and an
\* operation by which a session with a project left the store (destroy, lazy
\* expiry) or detached its project has called release on that project's lock.
C11_LocksFollowSessions ==
    Quiet =>
        /\ lockHeld \subseteq AttachedProjects
        /\ \A t \in Tasks :
               Left(t) =>
                   \E i \in 1..Len(CallsOf(t)) :
                       CallsOf(t)[i] = <<"release", task[t].session.project_fmu_directory>>

\* C12: a get_session that reads a stored session at a time not later than its
\* expires_at returns a record of the class that was stored, with last_accessed
\* set to the time of the read, and that record is the one in the store under
\* the id; and no step ever lowers the last_accessed of a stored session.
C12_Inv ==
    \A t \in Tasks :
        (Done(t) /\ task[t].op = "get" /\ ReadLive(t))
        => /\ Truthy(task[t].ret)
           /\ task[t].ret.last_accessed = task[t].at
           /\ task[t].sid \in DOMAIN storage
           /\ storage[task[t].sid] = task[t].ret
           /\ task[t].ret.id = task[t].sid

C12_Mono ==
    \A sid \in DOMAIN storage \cap DOMAIN storage' :
        /\ storage'[sid].last_accessed >= storage[sid].last_accessed
        /\ storage'[sid].last_accessed <= now'

C12_GetTouches == [](C12_Inv) /\ [][C12_Mono]_vars

C12_Witness ==
    \E t \in Tasks :
        /\ Done(t) /\ task[t].op = "get" /\ ReadLive(t)
        /\ task[t].ret.cls = "ProjectSession"
        /\ task[t].ret.last_accessed > task[t].ret.created_at
        /\ task[t].at = task[t].ret.expires_at

\* C13: a step of create_session adds one record to the store, under an id
\* that was not in the store (the id it returns is that key): a plain Session
\* with that id, created now, with expires_at = created_at + TTL and
\* last_accessed = created_at, and no project; every other record is unchanged.
C13_Step ==
    nextId' # nextId =>
        /\ nextId \notin DOMAIN storage
        /\ DOMAIN storage' = DOMAIN storage \cup {nextId}
        /\ storage'[nextId].cls = "Session"
        /\ storage'[nextId].id = nextId
        /\ storage'[nextId].created_at = now
        /\ storage'[nextId].expires_at = storage'[nextId].created_at + ExpireTicks
        /\ storage'[nextId].last_accessed = storage'[nextId].created_at
        /\ "project_fmu_directory" \notin DOMAIN storage'[nextId]
        /\ \A sid \in DOMAIN storage : storage'[sid] = storage[sid]

C13_CreateAddsOne == [][C13_Step]_vars

C13_Witness ==
    \E j, k \in DOMAIN storage :
        /\ j < k
        /\ storage[j].cls = "ProjectSession"
        /\ storage[k].cls = "Session"
        /\ storage[k].created_at > storage[j].last_accessed
        /\ storage[k].last_accessed = storage[k].created_at

\* C14: a PATCH of an access token whose id is not one of the slots fails with
\* ValueError, which the route answers with HTTP 400, and changes no access
\* token slot of any session and no session record.
C14_Step ==
    (tokCall'.seq # tokCall.seq /\ tokCall'.token.id \notin TokenSlots) =>
        /\ tokCall'.err = ValueError
        /\ tokCall'.status = 400
        /\ \A sid \in SeqSessionIds : TokensOf(sid)' = TokensOf(sid)
        /\ storage' = storage

CallStep(op) == rcall'.seq # rcall.seq /\ rcall'.op = op

\* the ids of the revisions in the cache
Ids(revs) == {revs[i].id : i \in 1..Len(revs)}

\* the text of revision_id in the cache
ContentOf(revs, revision_id) == revs[CHOOSE i \in Lookup(revs, revision_id) : TRUE].content

\* C15: a restore_from_cache that succeeds while the resource file exists adds
\* exactly one revision, the newest, whose content is the file's text from
\* before the restore, and leaves the file holding the document of the restored
\* revision (in the serializer's layout); a restore of that new revision made
\* next succeeds and leaves the file with the text it had before the first
\* restore.
C15_Step ==
    /\ (CallStep("restore_from_cache") /\ rcall'.err = None /\ live # NoFile) =>
          /\ Ids(revisions') \ Ids(revisions) = {nextRev}
          /\ Ids(revisions') \subseteq Ids(revisions) \cup {nextRev}
          /\ revisions'[Len(revisions')] = [id |-> nextRev, content |-> live]
          /\ rcall'.snap = nextRev
          /\ Parse(live') = Parse(ContentOf(revisions, rcall'.revision_id))
          /\ live' = Serialize(Parse(live'))
    /\ (/\ rcall.op = "restore_from_cache" /\ rcall.err = None /\ rcall.snap # 0
        /\ CallStep("restore_from_cache") /\ rcall'.revision_id = rcall.snap) =>
          /\ rcall'.err = None
          /\ live' = rcall.prev

C15_RestoreIsUndoable == [][C15_Step]_vars

C15_Witness ==
    /\ rcall.op = "restore_from_cache" /\ rcall.err = None /\ rcall.undo
    /\ rcall.prev # NoFile
    /\ live # rcall.prev
    /\ Len(revisions) = CacheMaxRevisions
    /\ revisions[1].id > 1

\* C16: a restore_from_cache of a revision that is in the cache and whose
\* content fails the schema fails with ValueError (InvalidCachedContent) and
\* changes neither the resource file nor the cache: no revision is added.
C16_Step ==
    (/\ CallStep("restore_from_cache")
     /\ Lookup(revisions, rcall'.revision_id) # {}
     /\ ~IsValid(ContentOf(revisions, rcall'.revision_id))) =>
        /\ rcall'.err = ValueError
        /\ live' = live
        /\ revisions' = revisions
        /\ nextRev' = nextRev

C16_InvalidRestoreChangesNothing == [][C16_Step]_vars

C16_Witness ==
    /\ rcall.op = "restore_from_cache" /\ rcall.err = ValueError
    /\ live # NoFile
    /\ Len(revisions) = CacheMaxRevisions

\* C17: a restore_from_cache that succeeds has done its steps in the order
\* read, validate, snapshot (when the file existed), write, invalidate, and
\* leaves no in-memory copy of the resource; a load made next returns the
\* document now in the file, which is the restored one.
C17_Inv ==
    (rcall.op = "restore_from_cache" /\ rcall.err = None) =>
        /\ rcall.steps = IF rcall.prev = NoFile
                         THEN <<"read", "validate", "write", "invalidate">>
                         ELSE <<"read", "validate", "snapshot", "write", "invalidate">>
        /\ mem = NoFile

C17_Step ==
    (rcall.op = "restore_from_cache" /\ rcall.err = None /\ CallStep("load")) =>
        /\ rcall'.err = None
        /\ Serialize(rcall'.ret) = live
        /\ mem' = rcall'.ret

C17_RestoreOrderAndFreshRead == [](C17_Inv) /\ [][C17_Step]_vars

C17_Witness ==
    /\ rcall.op = "restore_from_cache" /\ rcall.err = None
    /\ Len(rcall.steps) = 5
    /\ Parse(rcall.prev) # Parse(live)

\* C18: the cache never holds more revisions than the cap, its revisions are in
\* the order of their ids, and a step that stores a revision when the cache
\* holds cap revisions removes the oldest one only and keeps the others, in
\* order, followed by the new one.
C18_Inv ==
    /\ Len(revisions) <= CacheMaxRevisions
    /\ \A i, j \in 1..Len(revisions) : i < j => revisions[i].id < revisions[j].id

C18_Step ==
    (nextRev' # nextRev /\ Len(revisions) = CacheMaxRevisions) =>
        /\ Len(revisions') = CacheMaxRevisions
        /\ \A i \in 1..(CacheMaxRevisions - 1) : revisions'[i] = revisions[i + 1]
        /\ revisions'[CacheMaxRevisions].id = nextRev
        /\ revisions[1].id \notin Ids(revisions')

C18_CapPrunesOldest == [](C18_Inv) /\ [][C18_Step]_vars

C18_Witness ==
    /\ rcall.op = "store_revision"
    /\ Len(revisions) = CacheMaxRevisions
    /\ revisions[1].id > 1
    /\ revisions[Len(revisions)].id = rcall.revision_id

\* C19: list_cache_revisions returns the ids of the revisions that are in the
\* cache when it is called, oldest first; so two calls with nothing stored
\* between them return the same sequence, and a call made next after a
\* store_revision ends with the id just stored.
C19_Step ==
    /\ CallStep("list_cache_revisions") =>
          /\ Len(rcall'.ret) = Len(revisions)
          /\ \A i \in 1..Len(revisions) : rcall'.ret[i] = revisions[i].id
          /\ \A i, j \in 1..Len(rcall'.ret) : i < j => rcall'.ret[i] < rcall'.ret[j]
          /\ revisions' = revisions
    /\ (rcall.op = "list_cache_revisions" /\ CallStep("list_cache_revisions")) =>
          rcall'.ret = rcall.ret
    /\ (rcall.op = "store_revision" /\ CallStep("list_cache_revisions")) =>
          rcall'.ret[Len(rcall'.ret)] = rcall.revision_id

C19_ListOldestFirst == [][C19_Step]_vars

C19_Witness ==
    /\ rcall.op = "list_cache_revisions"
    /\ Len(rcall.ret) = CacheMaxRevisions
    /\ rcall.ret[1] > 1

\* C20: get_cache_content, get_cache_diff and restore_from_cache called, for
\* a resource that has a manager, with a revision id that is not in the cache
\* fail with FileNotFoundError (RevisionNotFound) and change neither the
\* resource file nor the cache.
C20_Step ==
    (/\ \/ CallStep("get_cache_content")
        \/ CallStep("get_cache_diff") /\ rcall'.managed
        \/ CallStep("restore_from_cache")
     /\ Lookup(revisions, rcall'.revision_id) = {}) =>
        /\ rcall'.err = FileNotFoundError
        /\ live' = live
        /\ revisions' = revisions
        /\ nextRev' = nextRev

DiffCur == LET v == diffIn.current[diffIn.path] IN IF v = None THEN <<>> ELSE v.items
DiffSel == LET v == diffIn.selected[diffIn.path] IN IF v = None THEN <<>> ELSE v.items
KeyOf(item) == _get_key(item, _LIST_DIFF_KEYS[diffIn.path])
KeysIn(items) == {KeyOf(items[i]) : i \in DOMAIN items}
RecsOf(items, k) == {items[i] : i \in {j \in DOMAIN items : KeyOf(items[j]) = k}}
LastOf(items, k) == items[CHOOSE i \in DOMAIN items : KeyOf(items[i]) = k /\ \A j \in DOMAIN items : KeyOf(items[j]) = k => j <= i]
UniqueKeys(items) == \A i, j \in DOMAIN items : KeyOf(items[i]) = KeyOf(items[j]) => i = j
Occurs(seq, x) == Cardinality({i \in DOMAIN seq : seq[i] = x})
Dumps == {_dump_value(z) : z \in Zones}
InBoth == KeysIn(DiffCur) \cap KeysIn(DiffSel)

\* added holds the records of selected whose key is no key of current,
\* removed the records of current whose key is no key of selected
AddedRemovedOk ==
    \A r \in Dumps :
        /\ Occurs(diffOut.list_diff.added, r) = Cardinality({i \in DOMAIN DiffSel : _dump_value(DiffSel[i]) = r /\ KeyOf(DiffSel[i]) \notin KeysIn(DiffCur)})
        /\ Occurs(diffOut.list_diff.removed, r) = Cardinality({i \in DOMAIN DiffCur : _dump_value(DiffCur[i]) = r /\ KeyOf(DiffCur[i]) \notin KeysIn(DiffSel)})

\* updated holds one entry for each key of both lists whose records differ,
\* the records of a key being all the records that carry it
UpdatedByRecords ==
    /\ \A k \in KeysIn(DiffCur) \cup KeysIn(DiffSel) :
           Cardinality({i \in DOMAIN diffOut.list_diff.updated : diffOut.list_diff.updated[i].key = k})
               = IF k \in InBoth /\ RecsOf(DiffCur, k) # RecsOf(DiffSel, k) THEN 1 ELSE 0
    /\ \A i \in DOMAIN diffOut.list_diff.updated :
           LET e == diffOut.list_diff.updated[i]
           IN /\ e.key \in InBoth
              /\ e.before \in {_dump_value(z) : z \in RecsOf(DiffCur, e.key)}
              /\ e.after \in {_dump_value(z) : z \in RecsOf(DiffSel, e.key)}

\* updated holds one entry for each key of both lists whose last records
\* differ, with these two records
UpdatedByLastRecord ==
    /\ \A k \in KeysIn(DiffCur) \cup KeysIn(DiffSel) :
           Cardinality({i \in DOMAIN diffOut.list_diff.updated : diffOut.list_diff.updated[i].key = k})
               = IF k \in InBoth /\ LastOf(DiffCur, k) # LastOf(DiffSel, k) THEN 1 ELSE 0
    /\ \A i \in DOMAIN diffOut.list_diff.updated :
           LET e == diffOut.list_diff.updated[i]
           IN /\ e.key \in InBoth
              /\ e.before = _dump_value(LastOf(DiffCur, e.key))
              /\ e.after = _dump_value(LastOf(DiffSel, e.key))

\* a record that is in both lists is in none of added, removed, updated
EqualInNone ==
    \A z \in Zones :
        (Occurs(DiffCur, z) > 0 /\ Occurs(DiffSel, z) > 0) =>
            /\ Occurs(diffOut.list_diff.added, _dump_value(z)) = 0
            /\ Occurs(diffOut.list_diff.removed, _dump_value(z)) = 0
            /\ \A i \in DOMAIN diffOut.list_diff.updated :
                   /\ diffOut.list_diff.updated[i].before # _dump_value(z)
                   /\ diffOut.list_diff.updated[i].after # _dump_value(z)

\* C21 as stated: for a list field with a declared key, added is the records
\* of selected whose key is no key of current, removed the records of current
\* whose key is no key of selected, updated one {key, before, after} entry for
\* each key of both lists whose records differ by value, and a record that is
\* equal in both lists is in none of the three.
C21_AsStated ==
    diffOut.built => AddedRemovedOk /\ UpdatedByRecords /\ EqualInNone

\* C21: added is the records of selected whose key is no key of current,
\* removed the records of current whose key is no key of selected, updated one
\* {key, before, after} entry for each key of both lists whose records differ
\* by value, where of several records of one list that carry the same key the
\* last one is the record of the key; when no key repeats within a list, a
\* record that is equal in both lists is in none of the three.
C21_KeyedListDiff ==
    diffOut.built =>
        /\ AddedRemovedOk
        /\ UpdatedByLastRecord
        /\ (UniqueKeys(DiffCur) /\ UniqueKeys(DiffSel)) => EqualInNone

\* a list diff with one record removed and one updated, no key repeated
C21_Witness ==
    /\ diffOut.built
    /\ UniqueKeys(DiffCur) /\ UniqueKeys(DiffSel)
    /\ Len(DiffCur) = 2 /\ Len(DiffSel) = 1
    /\ Len(diffOut.list_diff.removed) = 1
    /\ Len(diffOut.list_diff.updated) = 1

\* C22: the diff of a model against a model of the same content is empty.
C22_SelfDiffEmpty ==
    (diffOut.diffed /\ diffIn.current = diffIn.selected) => diffOut.results = <<>>

C22_Witness ==
    /\ diffOut.diffed
    /\ diffIn.current = diffIn.selected
    /\ Len(DiffCur) = MaxListLen

\* C23: every entry of a diff reports a change: a scalar entry has a before
\* that is not its after, a list entry has a record added, removed or
\* updated.
C23_EveryEntryReportsAChange ==
    diffOut.diffed =>
        \A i \in DOMAIN diffOut.results :
            LET e == diffOut.results[i]
            IN IF "added" \in DOMAIN e
               THEN e.added # <<>> \/ e.removed # <<>> \/ e.updated # <<>>
               ELSE e.updated.before # e.updated.after

\* seq lists, in the order of items, dumps of items that Keep holds of
InOrderOf(seq, items, Keep(_)) ==
    \E f \in [DOMAIN seq -> DOMAIN items] :
        /\ \A i, j \in DOMAIN seq : i < j => f[i] < f[j]
        /\ \A i \in DOMAIN seq : seq[i] = _dump_value(items[f[i]]) /\ Keep(items[f[i]])

\* C24: added lists its records in the order of the selected list, removed
\* in the order of the current list, and updated in the increasing string
\* order of the keys, so that two given lists have one diff.
C24_DiffOrder ==
    diffOut.built =>
        /\ LET Keep(item) == KeyOf(item) \notin KeysIn(DiffCur)
           IN InOrderOf(diffOut.list_diff.added, DiffSel, Keep)
        /\ LET Keep(item) == KeyOf(item) \notin KeysIn(DiffSel)
           IN InOrderOf(diffOut.list_diff.removed, DiffCur, Keep)
        /\ \A i, j \in DOMAIN diffOut.list_diff.updated :
               i < j => LexLess(str(diffOut.list_diff.updated[i].key, _LIST_DIFF_KEYS[diffIn.path]),
                                str(diffOut.list_diff.updated[j].key, _LIST_DIFF_KEYS[diffIn.path]))

\* two records updated, listed "10" before "2" though the list has "2" first
C24_Witness ==
    /\ diffOut.built
    /\ diffIn.path = "rms.zones"
    /\ Len(diffOut.list_diff.updated) = 2
    /\ diffOut.list_diff.updated[1].key = "10"
    /\ DiffCur[1].name = "2"

\* C25: get_cache_diff for a resource without a registered manager fails
\* with a ValueError that names the resource, whatever the file and the
\* revision are, and changes nothing: the file is not loaded, the cache is
\* as it was.
C25_Step ==
    (CallStep("get_cache_diff") /\ ~rcall'.managed) =>
        /\ rcall'.err = NotSupportedForDiff("config.json")
        /\ rcall'.ret = None
        /\ UNCHANGED <<live, mem, revisions, nextRev>>

C25_UnsupportedRefusedFirst == [][C25_Step]_vars

\* refused though the file is there, was never loaded, and the revision exists
C25_Witness ==
    /\ rcall.op = "get_cache_diff"
    /\ ~rcall.managed
    /\ rcall.err = NotSupportedForDiff("config.json")
    /\ live # NoFile
    /\ mem = NoFile
    /\ rcall.revision_id \in Ids(revisions)

\* ------------------------------------------------------------ requests
\* this step answers a request to the route
ReqStep(route) == resp'.seq # resp.seq /\ resp'.route = route

\* the store st holds a session under sid whose expiry is not before t
LiveIn(st, sid, t) == sid \in DOMAIN st /\ ~(st[sid].expires_at < t)

\* C26: POST /session sent with the cookie of an existing session destroys
\* that session and creates a new one: afterwards the old id is not in the
\* store, a new id is in the store and in the response cookie, and the
\* request is not rejected.
C26_Step ==
    (ReqStep("POST /session") /\ resp'.token = "good" /\ resp'.cookie \in DOMAIN storage) =>
        /\ resp'.status = 200
        /\ resp'.cookie \notin DOMAIN storage'
        /\ resp'.set_cookie \in DOMAIN storage'
        /\ resp'.set_cookie # resp'.cookie

C26_ExistingSessionReplaced == [][C26_Step]_vars

\* C27: a request to a session-protected route is answered 401 "No active
\* session found" without a session cookie, whatever its token header, 401
\* "Invalid or expired session" with the cookie of an absent or expired
\* session, and is let through only with the cookie of a live session.
C27_Step ==
    ReqStep("GET /project") =>
        /\ resp'.cookie = NoSid =>
               resp'.status = 401 /\ resp'.detail = "No active session found"
        /\ (resp'.cookie # NoSid /\ ~LiveIn(storage, resp'.cookie, now)) =>
               resp'.status = 401 /\ resp'.detail = "Invalid or expired session"
        /\ LiveIn(storage, resp'.cookie, now) => resp'.status # 401
        /\ resp'.status = 401 => resp'.project = NoProject /\ ~resp'.searched

C28_Step ==
    (ReqStep("GET /project") /\ LiveIn(storage, resp'.cookie, now)) =>
        LET sid == resp'.cookie
            old == storage[sid]
        IN /\ old.cls = "ProjectSession" =>
                  /\ resp'.status = 200
                  /\ resp'.project = old.project_fmu_directory
                  /\ ~resp'.searched
                  /\ sid \in DOMAIN storage'
                  /\ storage'[sid].cls = "ProjectSession"
                  /\ storage'[sid].project_fmu_directory = old.project_fmu_directory
           /\ (old.cls = "Session" /\ resp'.nearest # NoProject) =>
                  /\ resp'.status = 200
                  /\ resp'.project = resp'.nearest
                  /\ resp'.searched
                  /\ sid \in DOMAIN storage'
                  /\ storage'[sid].cls = "ProjectSession"
                  /\ storage'[sid].id = sid
                  /\ storage'[sid].project_fmu_directory = resp'.nearest

C29_Step ==
    \A t \in Tasks :
        (task[t].op = "get" /\ task'[t] # task[t] /\ task[t].sid \notin DOMAIN storage) =>
            /\ storage' = storage
            /\ task'[t].pc = "done" => task'[t].ret = None

C30_Inv ==
    \A t \in Tasks :
        (Done(t) /\ task[t].op = "attach" /\ task[t].ret.cls = "ProjectSession") =>
            /\ task[t].sid \in DOMAIN storage
            /\ storage[task[t].sid].cls = "ProjectSession"
            /\ storage[task[t].sid].project_fmu_directory = task[t].project

\* a stored ProjectSession stays one, with its project, in every step but the
\* last step of an attach, a detach or a destroy on its id and the removal of
\* the session once it has expired
C30_Step ==
    \A sid \in DOMAIN storage :
        storage[sid].cls = "ProjectSession" =>
            \/ /\ sid \in DOMAIN storage'
               /\ storage'[sid].cls = "ProjectSession"
               /\ storage'[sid].project_fmu_directory = storage[sid].project_fmu_directory
            \/ \E t \in Tasks : /\ task[t].sid = sid /\ task[t].op \in Mutating
                                 /\ task[t].pc # "done" /\ task'[t].pc = "done"
            \/ /\ sid \notin DOMAIN storage'
               /\ storage[sid].expires_at < now

\* C30: once an attach has returned, the store holds a ProjectSession with
\* its project under the id until a detach, another attach, a destroy or
\* expiry, also when get_session calls overlap the attach: the record a
\* get_session writes back never replaces a newer one.
C30_AttachSurvivesReads == [](C30_Inv) /\ [][C30_Step]_vars

\* a get that arrived while an attach was in flight has answered with the
\* ProjectSession, which is the stored record
C30_Witness ==
    \E t \in Tasks :
        /\ Done(t) /\ task[t].op = "get" /\ "attach" \in task[t].ov
        /\ task[t].ret.cls = "ProjectSession"
        /\ task[t].sid \in DOMAIN storage
        /\ storage[task[t].sid] = task[t].ret

\* ------------------------------------------------------------ destroying twice
\* task t has ended a call that takes its session out of the store: a destroy,
\* or a get of a session it read after its expiry
Removing(t) ==
    /\ Done(t)
    /\ \/ task[t].op = "destroy"
       \/ task[t].op = "get" /\ Truthy(task[t].session) /\ ~ReadLive(t)

\* a destroy_session, or a get_session of an expired session, ends without an
\* error and its id is not in the store
C31_Inv ==
    \A t \in Tasks : Removing(t) => (task[t].ret = None /\ task[t].sid \notin DOMAIN storage)

\* a step of a destroy_session for an id that is not in the store changes
\* nothing in the store
C31_Step ==
    \A t \in Tasks :
        (task[t].op = "destroy" /\ task'[t] # task[t] /\ task[t].sid \notin DOMAIN storage) =>
            storage' = storage

\* C31: destroy_session never fails: for an absent id it does nothing, and
\* when two destroy_session calls or two get_session calls on one expired
\* session overlap, both end without an error and the id is absent afterwards.
C31_DestroyNeverFails == [](C31_Inv) /\ [][C31_Step]_vars

\* the second of two overlapping destroys of one session has ended: it found
\* the session gone
C31_Witness ==
    \E t \in Tasks :
        /\ Done(t) /\ task[t].op = "destroy" /\ "destroy" \in task[t].ov
        /\ task[t].session = None
        /\ task[t].ret = None
        /\ \A u \in Tasks \ {t} : ~InFlight(u)

\* ------------------------------------------------------------ lifetimes
\* every stored record is stored under its id, was last accessed between its
\* creation and its expiry, and expires ExpireTicks after its creation
C32_Inv ==
    \A sid \in DOMAIN storage :
        /\ storage[sid].id = sid
        /\ storage[sid].created_at <= storage[sid].last_accessed
        /\ storage[sid].last_accessed <= storage[sid].expires_at
        /\ storage[sid].expires_at = storage[sid].created_at + ExpireTicks

\* no step changes the id, the creation time or the expiry of a stored record
C32_Step ==
    \A sid \in DOMAIN storage \cap DOMAIN storage' :
        /\ storage'[sid].id = storage[sid].id
        /\ storage'[sid].created_at = storage[sid].created_at
        /\ storage'[sid].expires_at = storage[sid].expires_at

RecordOf(st, sid) == IF sid \in DOMAIN st THEN st[sid] ELSE None

\* a step of a call addressed to one id, or the creation of a session under
\* a new id, leaves the record (or the absence) of every other id as it was
C34_Step ==
    /\ \A t \in Tasks :
           task'[t] # task[t] =>
               \A sid \in SeqSessionIds \ {IF task[t].pc = "idle" THEN task'[t].sid ELSE task[t].sid} :
                   RecordOf(storage', sid) = RecordOf(storage, sid)
    /\ nextId' # nextId =>
           \A sid \in SeqSessionIds \ {nextId} : RecordOf(storage', sid) = RecordOf(storage, sid)

\* C34: an operation addressed to one session id never adds, removes or
\* modifies the record stored under any other id.
C34_OtherSessionsUntouched == [][C34_Step]_vars

\* a project was attached to one session while another session is stored
C34_Witness ==
    /\ Done(1) /\ task[1].op = "attach"
    /\ task[1].sid \in DOMAIN storage
    /\ storage[task[1].sid].cls = "ProjectSession"
    /\ task[1].ret = storage[task[1].sid]
    /\ \E sid \in DOMAIN storage : sid # task[1].sid

\* ------------------------------------------------------------ applying a list diff
InSeq(seq, x) == \E i \in DOMAIN seq : seq[i] = x
RangeOf(seq) == {seq[i] : i \in DOMAIN seq}

\* the list diff d applied to the records of items: drop every record in
\* removed, replace each updated.before by its updated.after, add every
\* record in added
ApplyDiff(items, d) ==
    LET cur == [i \in DOMAIN items |-> _dump_value(items[i])]
        Kept(r) == ~InSeq(d.removed, r)
        kept == SelectSeq(cur, Kept)
        Repl(r) ==
            IF \E i \in DOMAIN d.updated : d.updated[i].before = r
            THEN d.updated[CHOOSE i \in DOMAIN d.updated :
                              /\ d.updated[i].before = r
                              /\ \A j \in DOMAIN d.updated : d.updated[j].before = r => i <= j].after
            ELSE r
    IN [i \in DOMAIN kept |-> Repl(kept[i])] \o d.added

SelectedRecords == {_dump_value(DiffSel[i]) : i \in DOMAIN DiffSel}

\* the statement as it is written, for all pairs of lists
C35_AsStated ==
    diffOut.built => RangeOf(ApplyDiff(DiffCur, diffOut.list_diff)) = SelectedRecords

\* C35: for two lists in which no key repeats, the list diff applied to the
\* current list (removed dropped, each updated.before replaced by its after,
\* added appended) gives exactly the records of the selected list, each once.
C35_ApplyGivesSelected ==
    (diffOut.built /\ UniqueKeys(DiffCur) /\ UniqueKeys(DiffSel)) =>
        /\ RangeOf(ApplyDiff(DiffCur, diffOut.list_diff)) = SelectedRecords
        /\ Len(ApplyDiff(DiffCur, diffOut.list_diff)) = Len(DiffSel)

\* a diff with a record added and a record updated, no key repeated
C35_Witness ==
    /\ diffOut.built
    /\ UniqueKeys(DiffCur) /\ UniqueKeys(DiffSel)
    /\ Len(DiffCur) = 1 /\ Len(DiffSel) = 2
    /\ Len(diffOut.list_diff.added) = 1
    /\ Len(diffOut.list_diff.updated) = 1

\* ------------------------------------------------------------ the full-content key
CurrentRecords == {_dump_value(DiffCur[i]) : i \in DOMAIN DiffCur}

\* C36: for the list field keyed by the full content of the record
\* (stratigraphy.root) the list diff has no updated entry, added holds the
\* records of selected that are no record of current and removed the records
\* of current that are no record of selected.
C36_FullKeyNeverUpdates ==
    (diffOut.built /\ diffIn.path = "stratigraphy.root") =>
        /\ diffOut.list_diff.updated = <<>>
        /\ RangeOf(diffOut.list_diff.added) = SelectedRecords \ CurrentRecords
        /\ RangeOf(diffOut.list_diff.removed) = CurrentRecords \ SelectedRecords

\* two records of one name and different content, keyed by full content
C36_Witness ==
    /\ diffOut.built /\ diffIn.path = "stratigraphy.root"
    /\ Len(DiffCur) = 2 /\ Len(DiffSel) = 2
    /\ \E i \in DOMAIN DiffCur, j \in DOMAIN DiffSel :
           DiffCur[i].name = DiffSel[j].name /\ DiffCur[i] # DiffSel[j]
    /\ Len(diffOut.list_diff.added) = 1
    /\ Len(diffOut.list_diff.removed) = 1

\* ------------------------------------------------------------ reads of the cache
\* a step of one of the three read operations of the resource service
CacheReadStep ==
    \/ CallStep("list_cache_revisions")
    \/ CallStep("get_cache_content")
    \/ CallStep("get_cache_diff")

C37_Step ==
    CacheReadStep =>
        /\ revisions' = revisions
        /\ live' = live
        /\ cache_list_revisions(revisions') = cache_list_revisions(revisions)

\* C37: list_cache_revisions, get_cache_content and get_cache_diff leave the
\* cached revisions and the content of the resource file as they were, so
\* list_revisions returns after them the sequence it returned before.
C37_ReadsChangeNothing == [][C37_Step]_vars

\* a diff was answered against a stored revision, the file being there and
\* the cache being full, right after the revisions had been listed
C37_Witness ==
    /\ rcall.op = "get_cache_diff" /\ rcall.managed
    /\ rcall.err = None
    /\ rcall.ret # <<>>
    /\ live # NoFile
    /\ Len(revisions) = CacheMaxRevisions

\* ------------------------------------------------------------ a failed open
\* the request just answered is a POST /project of a live session whose
\* directory could not be opened
FailedOpen ==
    /\ ReqStep("POST /project")
    /\ LiveIn(storage, resp'.cookie, now)
    /\ resp'.status \in {403, 404, 409}

\* the store and the locks after it: the session is stored as it was, read at
\* the time of the request; a project attached to it is still attached; no
\* lock call was made
C33_Step ==
    FailedOpen =>
        LET sid == resp'.cookie
        IN /\ storage' = _store_session(storage, sid, Touch(storage[sid], now))
           /\ storage[sid].cls = "ProjectSession" =>
                  /\ storage'[sid].cls = "ProjectSession"
                  /\ storage'[sid].project_fmu_directory = storage[sid].project_fmu_directory
           /\ storage[sid].cls = "Session" => storage'[sid].cls = "Session"
           /\ UNCHANGED <<lockLog, lockHeld, lockBusy>>

AskedOfProject == lstat.sid # NoSid /\ lstat.project # NoProject

====
